---- MODULE Spec2Model ----
(***************************************************************************)
(* Fake-discount detector: the aggregation, feature derivation, anomaly    *)
(* score normalisation, rule engine and hybrid resolver of src/src/*.py.    *)
(*                                                                         *)
(* Numbers.  Prices are integers in thousandths of the currency unit       *)
(* (12 is 0.012), so that round(x, 2) is not the identity.  Calendar days   *)
(* are integers.  A quotient the code keeps as a float is kept exactly:     *)
(*   <<n, d>>     the rational n/d, d > 0                                   *)
(*   <<s, a, b>>  the real sgn(s) * sqrt(a/b), a >= 0, b > 0                *)
(*   <<>>         NaN (pandas "no value") or Python None                    *)
(***************************************************************************)
EXTENDS Integers, Sequences, FiniteSets, TLC

VARIABLES
    stage,       \* position in the pipeline of app/main.py
    cleaned,     \* cleaned transaction records (input of aggregate_time_series)
    aggregated,  \* daily price table returned by aggregate_time_series
    featured,    \* engineered feature table returned by engineer_features
    score_dict,  \* product_code -> normalised anomaly score (train_isolation_forest)
    today,       \* calendar day of the clock, pd.Timestamp.today().normalize()
    call,        \* arguments of the last query
    result       \* outcome of the last query

vars == <<stage, cleaned, aggregated, featured, score_dict, today, call, result>>

(***************************************************************************)
(* Bounds of the model.                                                    *)
(***************************************************************************)
MaxDay == 5          \* product series live on calendar days 1..MaxDay
ClockDays == 2       \* the clock ranges over MaxDay .. MaxDay + ClockDays - 1
AggDays == 3         \* transactions of the aggregation runs live on days 1..AggDays
RawMax == 4          \* raw isolation-forest decision scores range over 0..RawMax

(***************************************************************************)
(* Program constants (src/src/config.py and literals of the code).         *)
(***************************************************************************)
MIN_HISTORY_DAYS == 30
SHORT_WINDOW == 7
LONG_WINDOW == 30
RECENT_WINDOW_DAYS == 60
DROP_THRESHOLD == <<18, 100>>
SPIKE_Z_THRESHOLD == <<12, 10>>
MinHistoricalObs == 5
MinRealtimeObs == 3
VolScaleNum == 7     \* 0.35 = 7/20
VolScaleDen == 20

None == <<>>
NaN == <<>>
Some(x) == <<x>>

(***************************************************************************)
(* Arithmetic helpers.                                                     *)
(***************************************************************************)
Max2(a, b) == IF a >= b THEN a ELSE b

RECURSIVE SumSeq(_)
SumSeq(s) == IF s = <<>> THEN 0 ELSE Head(s) + SumSeq(Tail(s))

RECURSIVE SumSqSeq(_)
SumSqSeq(s) == IF s = <<>> THEN 0 ELSE Head(s) * Head(s) + SumSqSeq(Tail(s))

RECURSIVE MaxSeq(_)
MaxSeq(s) == IF Len(s) = 1 THEN Head(s) ELSE Max2(Head(s), MaxSeq(Tail(s)))

SetMax(S) == CHOOSE x \in S : \A y \in S : y <= x
SetMin(S) == CHOOSE x \in S : \A y \in S : x <= y

\* Python round(): nearest multiple of m, ties to the even multiple.
RoundHalfEven(x, m) ==
    LET q == x \div m
        r == x % m
    IN  IF 2 * r < m THEN q
        ELSE IF 2 * r > m THEN q + 1
        ELSE IF q % 2 = 0 THEN q ELSE q + 1

\* round(float(price), 2) of a price in thousandths.
Round2(p) == 10 * RoundHalfEven(p, 10)

\* round(q, 3) of a rational, in thousandths.
Round3(q) == RoundHalfEven(1000 * q[1], q[2])

FracLt(p, q) == p[1] * q[2] < q[1] * p[2]
FracEq(p, q) == p[1] * q[2] = q[1] * p[2]
FracLe(p, q) == p[1] * q[2] <= q[1] * p[2]

\* Sign of a square-root value <<s, a, b>>.
SqSign(x) == IF x[1] = 0 \/ x[2] = 0 THEN 0 ELSE IF x[1] > 0 THEN 1 ELSE -1

\* x > t for a square-root value x (NaN compares False) and a rational t.
SqGt(x, t) ==
    IF x = NaN THEN FALSE
    ELSE IF t[1] >= 0
         THEN SqSign(x) > 0 /\ x[2] * t[2] * t[2] > t[1] * t[1] * x[3]
         ELSE SqSign(x) >= 0 \/ x[2] * t[2] * t[2] < t[1] * t[1] * x[3]

(***************************************************************************)
(* Table helpers (pandas operations on a table kept as a sequence of rows). *)
(***************************************************************************)
\* Lexicographic order on key pairs <<k1, k2>>.
KeyLt(k, l) == k[1] < l[1] \/ (k[1] = l[1] /\ k[2] < l[2])

RECURSIVE InsertKeyed(_, _)
InsertKeyed(e, s) ==
    IF s = <<>> THEN <<e>>
    ELSE IF KeyLt(e.key, Head(s).key) THEN <<e>> \o s
    ELSE <<Head(s)>> \o InsertKeyed(e, Tail(s))

RECURSIVE SortKeyed(_)
SortKeyed(s) ==
    IF s = <<>> THEN <<>>
    ELSE InsertKeyed(s[Len(s)], SortKeyed(SubSeq(s, 1, Len(s) - 1)))

\* A stable sort of the rows s by the key pairs keys[i]: sort_values, sort_index,
\* and the key order of groupby.
SortRows(s, keys) ==
    LET tagged == SortKeyed([i \in 1..Len(s) |-> [key |-> keys[i], row |-> s[i]]])
    IN  [i \in 1..Len(s) |-> tagged[i].row]

\* Product codes are strings; their order is that of ProductOrder.
ProductOrder == <<"A", "B", "C", "X">>
Rank(code) == CHOOSE i \in 1..Len(ProductOrder) : ProductOrder[i] = code

SortByDate(s) == SortRows(s, [i \in 1..Len(s) |-> <<s[i].order_date, 0>>])
SortByProductDate(s) ==
    SortRows(s, [i \in 1..Len(s) |-> <<Rank(s[i].product_code), s[i].order_date>>])
SortByDateProduct(s) ==
    SortRows(s, [i \in 1..Len(s) |-> <<s[i].order_date, Rank(s[i].product_code)>>])

\* The sorted sequence of a finite set of integers.
RECURSIVE SetToSortedSeq(_)
SetToSortedSeq(S) ==
    IF S = {} THEN <<>>
    ELSE LET m == CHOOSE x \in S : \A y \in S : x <= y
         IN  <<m>> \o SetToSortedSeq(S \ {m})

SortedProducts(df) ==
    LET ranks == SetToSortedSeq({Rank(df[i].product_code) : i \in 1..Len(df)})
    IN  [i \in 1..Len(ranks) |-> ProductOrder[ranks[i]]]

RowsOf(df, code) ==
    LET Keep(r) == r.product_code = code IN SelectSeq(df, Keep)

DailyRow(code, d, p) == [product_code |-> code, order_date |-> d, daily_mean_price |-> p]

Column(s, c) == [i \in 1..Len(s) |-> s[i][c]]

ProductCodes(df) == {df[i].product_code : i \in 1..Len(df)}

\* Concatenation of the sequences f[k], k running over the sorted keys.
RECURSIVE ConcatOver(_, _)
ConcatOver(keys, f) ==
    IF keys = <<>> THEN <<>> ELSE f[Head(keys)] \o ConcatOver(Tail(keys), f)

(***************************************************************************)
(* Feature Deriver: engineer_features / apply_features.                    *)
(***************************************************************************)
\* The trailing rolling window of w rows ending at row i (min_periods = 1).
RollingWindow(prices, i, w) == SubSeq(prices, Max2(1, i - w + 1), i)

\* rolling(...).mean(): S/n.
RollingMean(win) == <<SumSeq(win), Len(win)>>

\* rolling(...).std(), ddof = 1: sqrt((n*SS - S^2) / (n*(n-1))), NaN for one row.
RollingStd(win) ==
    LET n == Len(win)
        S == SumSeq(win)
    IN  IF n < 2 THEN NaN ELSE <<1, n * SumSqSeq(win) - S * S, n * (n - 1)>>

\* A z-score that is 0 where the standard deviation is 0.
RollingZScoreZero(p, win) ==
    LET n == Len(win)
        S == SumSeq(win)
        std == RollingStd(win)
    IN  IF std = NaN THEN NaN
        ELSE IF std[2] = 0 THEN <<0, 0, 1>>
        ELSE <<n * p - S, (n * p - S) * (n * p - S) * (n - 1), n * std[2]>>

\* (price - mean) / std.replace(0, NaN)
\*   = sgn(n*p - S) * sqrt((n*p - S)^2 * (n-1) / (n * (n*SS - S^2))).
RollingZScore(p, win) ==
    LET n == Len(win)
        S == SumSeq(win)
        std == RollingStd(win)
    IN  IF std = NaN \/ std[2] = 0 THEN NaN
        ELSE <<n * p - S, (n * p - S) * (n * p - S) * (n - 1), n * std[2]>>

\* std / mean.replace(0, NaN) = sgn(S) * sqrt(n * (n*SS - S^2) / ((n-1) * S^2)).
VolatilityCv(win) ==
    LET n == Len(win)
        S == SumSeq(win)
        std == RollingStd(win)
    IN  IF std = NaN \/ S = 0 THEN NaN
        ELSE <<S, n * std[2], (n - 1) * S * S>>

\* pct_change() * 100.0: NaN on the first row.
DailyDeltaPct(prices, i) ==
    IF i = 1 THEN NaN ELSE <<100 * (prices[i] - prices[i - 1]), prices[i - 1]>>

\* apply_features on one product's rows (sorted by date).
ApplyFeatures(group, short_window, long_window) ==
    LET prices == Column(group, "daily_mean_price")
    IN  [i \in 1..Len(group) |->
            LET long == RollingWindow(prices, i, long_window)
            IN  [product_code       |-> group[i].product_code,
                 order_date         |-> group[i].order_date,
                 daily_mean_price   |-> prices[i],
                 rolling_mean_short |-> RollingMean(RollingWindow(prices, i, short_window)),
                 rolling_mean_long  |-> RollingMean(long),
                 rolling_std_long   |-> RollingStd(long),
                 rolling_z_score    |-> RollingZScore(prices[i], long),
                 daily_delta_pct    |-> DailyDeltaPct(prices, i),
                 volatility_cv      |-> VolatilityCv(long)]]

\* engineer_features: sort by (product_code, order_date), apply per product group,
\* concatenate the groups in key order.
EngineerFeaturesOf(df, short_window, long_window) ==
    LET sorted == SortByProductDate(df)
        codes == SortedProducts(sorted)
        groups == [c \in ProductCodes(sorted) |->
                      ApplyFeatures(RowsOf(sorted, c), short_window, long_window)]
    IN  ConcatOver(codes, groups)

(***************************************************************************)
(* Rule Engine: detect_fake_discount.                                      *)
(* A call ends in [exit, raised, value, frame]: exit names the return      *)
(* statement reached ("raise" for an unhandled exception), value is the    *)
(* returned dict, frame holds the function's locals at that point.         *)
(***************************************************************************)
Timestamp(d, t) == [day |-> d, time |-> t]

\* pd.to_datetime(evaluation_date).normalize(): the calendar day of a timestamp.
Normalize(ts) == ts.day

\* df[df["product_code"] == product_code].set_index("order_date").sort_index()
ProductDf(df, product_code) == SortByDate(RowsOf(df, product_code))

IndexDates(product_df) == {product_df[i].order_date : i \in 1..Len(product_df)}

\* A label slice that leaves out its first label.
LocSliceOpenStart(product_df, lo, hi) ==
    LET Keep(r) == lo < r.order_date /\ r.order_date <= hi
    IN  SelectSeq(product_df, Keep)

\* product_df.loc[lo:hi]: label slice of a sorted index, both ends included.
LocSlice(product_df, lo, hi) ==
    LET Keep(r) == lo <= r.order_date /\ r.order_date <= hi
    IN  SelectSeq(product_df, Keep)

\* product_df.loc[date, "daily_mean_price"]
LocPrice(product_df, date) ==
    LET i == CHOOSE j \in 1..Len(product_df) : product_df[j].order_date = date
    IN  product_df[i].daily_mean_price

\* An anchor that falls to the last date of the series when the requested day is missing.
AnchorDateLast(product_df, eval_date) ==
    IF eval_date \notin IndexDates(product_df)
    THEN IF IndexDates(product_df) = {} THEN None
         ELSE Some(SetMax(IndexDates(product_df)))
    ELSE Some(eval_date)

\* Lines 52-62: the requested day when the series has it, else the closest
\* previous day with data, None when there is none.
AnchorDate(product_df, eval_date) ==
    IF eval_date \notin IndexDates(product_df)
    THEN LET available_dates == {d \in IndexDates(product_df) : d <= eval_date}
         IN  IF available_dates = {} THEN None ELSE Some(SetMax(available_dates))
    ELSE Some(eval_date)

\* Line 125.
DropPct(claimed_original_price, current_price) ==
    IF claimed_original_price > 0
    THEN <<claimed_original_price - current_price, claimed_original_price>>
    ELSE <<0, 1>>

\* The whole window, its last row included.
PreDropAll(recent) == recent

\* recent.iloc[:-1]
PreDrop(recent) == SubSeq(recent, 1, Len(recent) - 1)

\* Line 128: (pre_drop["rolling_z_score"] > spike_z_threshold).any()
HasSpike(pre_drop, spike_z_threshold) ==
    \E i \in 1..Len(pre_drop) : SqGt(pre_drop[i].rolling_z_score, spike_z_threshold)

\* np.clip(vol_raw / 0.35, 0.0, 1.0); NaN stays NaN.
ClipVol(vol_raw) ==
    IF vol_raw = NaN THEN NaN
    ELSE IF SqSign(vol_raw) <= 0 THEN <<0, 0, 1>>
    ELSE IF vol_raw[2] * VolScaleDen * VolScaleDen >= vol_raw[3] * VolScaleNum * VolScaleNum
         THEN <<1, 1, 1>>
    ELSE <<1, vol_raw[2] * VolScaleDen * VolScaleDen, vol_raw[3] * VolScaleNum * VolScaleNum>>

\* Lines 129-132: 0.0 unless some pre-drop row has a volatility_cv; then the
\* clipped volatility_cv of the last pre-drop row.
VolNormalized(pre_drop) ==
    IF \A i \in 1..Len(pre_drop) : pre_drop[i].volatility_cv = NaN
    THEN <<0, 0, 1>>
    ELSE ClipVol(pre_drop[Len(pre_drop)].volatility_cv)

\* A decision whose minor-drop branch includes the threshold itself.
DecideStatusLe(drop_pct, drop_threshold, has_spike) ==
    IF FracLe(drop_pct, drop_threshold)
    THEN [status |-> "Genuine",
          explanation |-> <<"Genuine: Minor drop of {drop_pct:.1%} from recent high.">>]
    ELSE IF has_spike
    THEN [status |-> "Suspicious",
          explanation |-> <<"Suspicious: Sharp drop of {drop_pct:.1%} after price spike detected. Volatility score: {vol_normalized:.2f}.">>]
    ELSE [status |-> "Genuine",
          explanation |-> <<"Genuine: Drop of {drop_pct:.1%} with no anomalies. Volatility score: {vol_normalized:.2f}.">>]

\* A decision whose minor-drop branch is taken above the threshold.
DecideStatusAbove(drop_pct, drop_threshold, has_spike) ==
    IF FracLt(drop_threshold, drop_pct)
    THEN [status |-> "Genuine",
          explanation |-> <<"Genuine: Minor drop of {drop_pct:.1%} from recent high.">>]
    ELSE IF has_spike
    THEN [status |-> "Suspicious",
          explanation |-> <<"Suspicious: Sharp drop of {drop_pct:.1%} after price spike detected. Volatility score: {vol_normalized:.2f}.">>]
    ELSE [status |-> "Genuine",
          explanation |-> <<"Genuine: Drop of {drop_pct:.1%} with no anomalies. Volatility score: {vol_normalized:.2f}.">>]

\* Lines 134-142.
DecideStatus(drop_pct, drop_threshold, has_spike) ==
    IF FracLt(drop_pct, drop_threshold)
    THEN [status |-> "Genuine",
          explanation |-> <<"Genuine: Minor drop of {drop_pct:.1%} from recent high.">>]
    ELSE IF has_spike
    THEN [status |-> "Suspicious",
          explanation |-> <<"Suspicious: Sharp drop of {drop_pct:.1%} after price spike detected. Volatility score: {vol_normalized:.2f}.">>]
    ELSE [status |-> "Genuine",
          explanation |-> <<"Genuine: Drop of {drop_pct:.1%} with no anomalies. Volatility score: {vol_normalized:.2f}.">>]

Frame(eval_date, current_price, claimed_original_price, recent) ==
    [eval_date |-> eval_date,
     current_price |-> current_price,
     claimed_original_price |-> claimed_original_price,
     recent |-> recent]

Return(exit, value, frame) ==
    [exit |-> exit, raised |-> FALSE, value |-> value, frame |-> frame]

Raise(error, frame) ==
    [exit |-> "raise", raised |-> TRUE, value |-> [error |-> error], frame |-> frame]

\* Lines 125-153, reached with current_price, claimed_original_price and recent bound.
CommonLogic(product_code, eval_date, current_price, claimed_original_price, recent, drop_threshold, spike_z_threshold) ==
    LET drop_pct == DropPct(claimed_original_price, current_price)
        pre_drop == PreDrop(recent)
        has_spike == HasSpike(pre_drop, spike_z_threshold)
        vol_normalized == VolNormalized(pre_drop)
        decision == DecideStatus(drop_pct, drop_threshold, has_spike)
    IN  Return("decision",
               [product_code |-> product_code,
                evaluation_date |-> eval_date,
                current_price |-> Round2(current_price),
                claimed_original_price |-> Round2(claimed_original_price),
                drop_percentage |-> Round3(drop_pct),
                discount_status |-> decision.status,
                volatility_score |-> vol_normalized,
                explanation |-> decision.explanation],
               Frame(eval_date, Some(current_price), Some(claimed_original_price),
                     Column(recent, "order_date")))

\* Lines 125-126 reached without a resolved window (prices given, date not today):
\* the comparison or the subtraction raises TypeError on a None price, and
\* otherwise the read of the unbound local recent raises UnboundLocalError.
CommonLogicUnbound(eval_date, current_price, claimed_original_price) ==
    LET frame == Frame(eval_date, current_price, claimed_original_price, <<>>)
    IN  IF claimed_original_price = None THEN Raise("TypeError", frame)
        ELSE IF claimed_original_price[1] > 0 /\ current_price = None
        THEN Raise("TypeError", frame)
        ELSE Raise("UnboundLocalError", frame)

\* Lines 50-80.
HistoricalMode(product_df, product_code, requested_date, window_days, drop_threshold, spike_z_threshold) ==
    LET anchor == AnchorDate(product_df, requested_date)
    IN  IF anchor = None
        THEN Return("no_prior_date",
                    [product_code |-> product_code,
                     evaluation_date |-> requested_date,
                     discount_status |-> "No Data",
                     volatility_score |-> <<0, 0, 1>>,
                     explanation |-> <<"No price data available on or before this date.">>],
                    Frame(requested_date, None, None, <<>>))
        ELSE LET eval_date == anchor[1]
                 current_price == LocPrice(product_df, eval_date)
                 start_date == eval_date - window_days
                 recent == LocSlice(product_df, start_date, eval_date)
             IN  IF Len(recent) < MinHistoricalObs
                 THEN Return("insufficient",
                             [product_code |-> product_code,
                              evaluation_date |-> eval_date,
                              discount_status |-> "Insufficient Data",
                              volatility_score |-> <<0, 0, 1>>,
                              explanation |-> <<"Not enough recent historical data for reliable assessment.">>],
                             Frame(eval_date, Some(current_price), None,
                                   Column(recent, "order_date")))
                 ELSE CommonLogic(product_code, eval_date, current_price,
                                  MaxSeq(Column(recent, "daily_mean_price")),
                                  recent, drop_threshold, spike_z_threshold)

\* The first date of the series instead of the last.
FirstDate(product_df) == SetMin(IndexDates(product_df))

\* Line 106: product_df.index.max().
LastDate(product_df) == SetMax(IndexDates(product_df))

\* Line 86.
InvalidInput(current_price, claimed_original_price) ==
    current_price = None \/ claimed_original_price = None \/ current_price[1] <= 0

\* The comparison of line 94 with its operands exchanged.
NoDiscountSwapped(current_price, claimed_original_price) ==
    current_price < claimed_original_price

\* Line 94.
NoDiscount(current_price, claimed_original_price) ==
    claimed_original_price < current_price

\* Lines 85-120.
RealTimeMode(product_df, product_code, eval_date, current_price, claimed_original_price, window_days, drop_threshold, spike_z_threshold) ==
    IF InvalidInput(current_price, claimed_original_price)
    THEN Return("invalid",
                [product_code |-> product_code,
                 evaluation_date |-> eval_date,
                 discount_status |-> "Invalid Input",
                 explanation |-> <<"Please provide valid current and claimed original prices.">>],
                Frame(eval_date, current_price, claimed_original_price, <<>>))
    ELSE IF NoDiscount(current_price[1], claimed_original_price[1])
    THEN Return("no_discount",
                [product_code |-> product_code,
                 evaluation_date |-> eval_date,
                 current_price |-> Round2(current_price[1]),
                 claimed_original_price |-> Round2(claimed_original_price[1]),
                 drop_percentage |-> 0,
                 discount_status |-> "No Discount",
                 volatility_score |-> <<0, 0, 1>>,
                 explanation |-> <<"Claimed original price is less than current price. No discount detected.">>],
                Frame(eval_date, current_price, claimed_original_price, <<>>))
    ELSE LET last_date == LastDate(product_df)
             start_date == last_date - window_days
             recent == LocSlice(product_df, start_date, last_date)
         IN  IF Len(recent) < MinRealtimeObs
             THEN Return("limited",
                         [product_code |-> product_code,
                          evaluation_date |-> eval_date,
                          discount_status |-> "Limited Data",
                          volatility_score |-> <<0, 0, 1>>,
                          explanation |-> <<"Dataset ends on {last_date} with only {len(recent)} usable records in the recent window. Today's evaluation is anchored to that date, so results are approximate.">>],
                         Frame(eval_date, current_price, claimed_original_price,
                               Column(recent, "order_date")))
             ELSE CommonLogic(product_code, eval_date, current_price[1],
                              claimed_original_price[1], recent,
                              drop_threshold, spike_z_threshold)

\* detect_fake_discount(df, product_code, evaluation_date, current_price,
\*                      claimed_original_price, window_days, drop_threshold,
\*                      spike_z_threshold), run on calendar day clock.
DetectFakeDiscount(df, clock, product_code, evaluation_date, current_price, claimed_original_price, window_days, drop_threshold, spike_z_threshold) ==
    LET eval_date == Normalize(evaluation_date)
        product_df == ProductDf(df, product_code)
    IN  IF product_df = <<>>
        THEN Return("no_product",
                    [product_code |-> product_code,
                     evaluation_date |-> eval_date,
                     discount_status |-> "No Data",
                     volatility_score |-> <<0, 0, 1>>,
                     explanation |-> <<"No price data available for this product.">>],
                    Frame(eval_date, current_price, claimed_original_price, <<>>))
        ELSE IF current_price = None /\ claimed_original_price = None
        THEN HistoricalMode(product_df, product_code, eval_date, window_days,
                            drop_threshold, spike_z_threshold)
        ELSE IF eval_date = clock
        THEN RealTimeMode(product_df, product_code, eval_date, current_price,
                          claimed_original_price, window_days, drop_threshold,
                          spike_z_threshold)
        ELSE CommonLogicUnbound(eval_date, current_price, claimed_original_price)

(***************************************************************************)
(* Hybrid Resolver: hybrid_detect_fake_discount.                           *)
(***************************************************************************)
\* float(score_dict.get(product_code, 0.0))
MlScore(scores, product_code) ==
    IF product_code \in DOMAIN scores THEN scores[product_code] ELSE <<0, 1>>

\* An escalation that fires at the thresholds themselves.
FinalStatusLe(rule_status, ml_score) ==
    IF rule_status = "Suspicious" /\ FracLe(<<1, 2>>, ml_score)
    THEN "Highly Suspicious"
    ELSE IF rule_status = "Genuine" /\ FracLe(<<3, 4>>, ml_score)
    THEN "Highly Suspicious"
    ELSE rule_status

\* Lines 111-115.
FinalStatus(rule_status, ml_score) ==
    IF rule_status = "Suspicious" /\ FracLt(<<1, 2>>, ml_score)
    THEN "Highly Suspicious"
    ELSE IF rule_status = "Genuine" /\ FracLt(<<3, 4>>, ml_score)
    THEN "Highly Suspicious"
    ELSE rule_status

\* An update that replaces the explanation by the ML text.
UpdateResultOverwrite(rule_value, final_status, ml_score) ==
    [k \in DOMAIN rule_value \cup {"ml_anomaly_score"} |->
        IF k = "ml_anomaly_score" THEN Round3(ml_score)
        ELSE IF k = "discount_status" THEN final_status
        ELSE IF k = "explanation"
        THEN <<" ML anomaly score: {ml_score:.3f} (higher = more abnormal).">>
        ELSE rule_value[k]]

\* Lines 117-120: the update of the rule result's dict.
UpdateResult(rule_value, final_status, ml_score) ==
    [k \in DOMAIN rule_value \cup {"ml_anomaly_score"} |->
        IF k = "ml_anomaly_score" THEN Round3(ml_score)
        ELSE IF k = "discount_status" THEN final_status
        ELSE IF k = "explanation"
        THEN Append(rule_value.explanation,
                    " ML anomaly score: {ml_score:.3f} (higher = more abnormal).")
        ELSE rule_value[k]]

\* hybrid_detect_fake_discount with the arguments of call c; an exception of the
\* rule engine propagates.
HybridDetectFakeDiscount(df, scores, clock, product_code, evaluation_date, current_price, claimed_original_price, window_days, drop_threshold, spike_z_threshold) ==
    LET rule_result == DetectFakeDiscount(df, clock, product_code, evaluation_date,
                           current_price, claimed_original_price, window_days,
                           drop_threshold, spike_z_threshold)
    IN  IF rule_result.raised THEN rule_result
        ELSE LET ml_score == MlScore(scores, product_code)
                 final_status == FinalStatus(rule_result.value.discount_status, ml_score)
             IN  [rule_result EXCEPT
                     !.value = UpdateResult(rule_result.value, final_status, ml_score)]

(***************************************************************************)
(* Anomaly Scorer: the score normalisation of train_isolation_forest.      *)
(* The isolation forest is library code: model.decision_function(X) is any *)
(* assignment of a raw score to each product of the table.                 *)
(***************************************************************************)
\* A min-max scaling of the raw scores without the negation of line 62.
NormalizeScoresNoInvert(decision) ==
    LET hi == SetMax({decision[c] : c \in DOMAIN decision})
        lo == SetMin({decision[c] : c \in DOMAIN decision})
    IN  IF hi = lo
        THEN [c \in DOMAIN decision |-> <<0, 1>>]
        ELSE [c \in DOMAIN decision |-> <<decision[c] - lo, hi - lo>>]

\* Lines 62-67: negate, then min-max scale; all zeros when the scores are equal.
NormalizeScores(decision) ==
    LET scores == [c \in DOMAIN decision |-> 0 - decision[c]]
        hi == SetMax({scores[c] : c \in DOMAIN scores})
        lo == SetMin({scores[c] : c \in DOMAIN scores})
    IN  IF hi = lo
        THEN [c \in DOMAIN scores |-> <<0, 1>>]
        ELSE [c \in DOMAIN scores |-> <<scores[c] - lo, hi - lo>>]

(***************************************************************************)
(* Aggregator: aggregate_time_series.                                      *)
(***************************************************************************)
\* Lines 21-22: rows whose price failed numeric coercion are dropped.
DropNaPrice(df) ==
    LET Keep(r) == r.price # NaN IN SelectSeq(df, Keep)

\* Lines 26-30: groupby([Grouper(order_date, freq="D"), product_code]).mean().
\* One row per (calendar day, product_code) pair that occurs in the data, in
\* key order (day, then product_code); the mean is exact for the prices drawn.
GroupMean(df) ==
    LET keys == {<<df[i].order_date.day, df[i].product_code>> : i \in 1..Len(df)}
        Group(k) == {i \in 1..Len(df) :
                        df[i].order_date.day = k[1] /\ df[i].product_code = k[2]}
        Total(k) == LET RECURSIVE Acc(_)
                        Acc(I) == IF I = {} THEN 0
                                  ELSE LET i == CHOOSE j \in I : TRUE
                                       IN  df[i].price[1] + Acc(I \ {i})
                    IN  Acc(Group(k))
        rows == {[order_date |-> k[1], product_code |-> k[2],
                  daily_mean_price |-> Some(Total(k) \div Cardinality(Group(k)))] :
                 k \in keys}
        RECURSIVE AsSeq(_)
        AsSeq(R) == IF R = {} THEN <<>>
                    ELSE LET r == CHOOSE x \in R : TRUE IN <<r>> \o AsSeq(R \ {r})
    IN  SortByDateProduct(AsSeq(rows))

\* Lines 31-32: groupby(level="product_code").ffill(): a NaN mean takes the last
\* earlier value of the same product; row order is kept.
Ffill(rows) ==
    [i \in 1..Len(rows) |->
        IF rows[i].daily_mean_price # NaN THEN rows[i]
        ELSE LET prior == {j \in 1..(i - 1) :
                              /\ rows[j].product_code = rows[i].product_code
                              /\ rows[j].daily_mean_price # NaN}
             IN  IF prior = {} THEN rows[i]
                 ELSE [rows[i] EXCEPT
                          !.daily_mean_price = rows[SetMax(prior)].daily_mean_price]]

\* Lines 37-39: products with at least min_days distinct dates.
ValidProducts(rows, min_days) ==
    {c \in ProductCodes(rows) :
        Cardinality({rows[i].order_date : i \in {j \in 1..Len(rows) :
                                                    rows[j].product_code = c}})
            >= min_days}

\* aggregate_time_series(cleaned, min_days): the returned table.
AggregateTimeSeries(df, min_days) ==
    LET sorted == SortRows(DropNaPrice(df),
                      [i \in 1..Len(DropNaPrice(df)) |->
                          <<Rank(DropNaPrice(df)[i].product_code),
                            DropNaPrice(df)[i].order_date.day>>])
        filled == Ffill(GroupMean(sorted))
        valid == ValidProducts(filled, min_days)
        Keep(r) == r.product_code \in valid
        kept == SelectSeq(filled, Keep)
    IN  [i \in 1..Len(kept) |->
            DailyRow(kept[i].product_code, kept[i].order_date,
                     IF kept[i].daily_mean_price = NaN THEN NaN
                     ELSE kept[i].daily_mean_price[1])]

(***************************************************************************)
(* Input families.                                                         *)
(***************************************************************************)
SeriesPrices == {12, 24}

\* Product "B": one row on every day 0..MaxDay+1, constant price.
OtherSeries == [i \in 1..(MaxDay + 2) |-> DailyRow("B", i - 1, 40)]

\* Product "C": two rows.
ThirdSeries == <<DailyRow("C", 1, 12), DailyRow("C", 2, 24)>>

\* Product "A" on the days DOMAIN f with the prices f.
SeriesOf(f) ==
    LET days == SetToSortedSeq(DOMAIN f)
    IN  [i \in 1..Len(days) |-> DailyRow("A", days[i], f[days[i]])]

\* The daily tables (in the aggregator's row order) whose product "A" lives on
\* one of the day sets, with any price of SeriesPrices on each day.
DailyTablesOn(daysets, others) ==
    UNION {{SortByDateProduct(SeriesOf(f) \o others) : f \in [D -> SeriesPrices]} :
           D \in daysets}

\* Product "A" on any non-empty set of days of 1..MaxDay (so with date gaps).
DailyTables == DailyTablesOn((SUBSET (1..MaxDay)) \ {{}}, OtherSeries \o ThirdSeries)

\* Product "A" on every day of 1..MaxDay, or on the last two days only.
ScoredTables ==
    DailyTablesOn({1..MaxDay, (MaxDay - 1)..MaxDay}, OtherSeries \o ThirdSeries)

\* Tables of one, two and three products, and the empty table.
TrainTables ==
    DailyTablesOn({1..MaxDay}, OtherSeries \o ThirdSeries)
        \cup DailyTablesOn({1..MaxDay}, OtherSeries)
        \cup DailyTablesOn({1..MaxDay}, <<>>)
        \cup {<<>>}

\* Cleaned transaction tables: products "A" and "B", days 1..AggDays; on each
\* (product, day) no transaction, one, two (the second at noon), or one whose
\* price is not a number.
TxOptions == {<<>>, <<Some(12)>>, <<Some(12), Some(24)>>, <<NaN>>}

AggCells == [i \in 1..(2 * AggDays) |->
                <<IF i <= AggDays THEN "A" ELSE "B", ((i - 1) % AggDays) + 1>>]

RECURSIVE CellRows(_, _)
CellRows(g, i) ==
    IF i > Len(AggCells) THEN <<>>
    ELSE [j \in 1..Len(g[i]) |->
             [order_date |-> Timestamp(AggCells[i][2], IF j = 1 THEN "00:00" ELSE "12:00"),
              product_code |-> AggCells[i][1],
              price |-> g[i][j]]]
         \o CellRows(g, i + 1)

CleanedTables == {CellRows(g, 1) : g \in [1..Len(AggCells) -> TxOptions]}

MinDaysArgs == {1, 2, MIN_HISTORY_DAYS}

NoCall == [fn |-> "none"]
NoResult == [exit |-> "none", raised |-> FALSE, value |-> <<>>, frame |-> <<>>]

FirstClockDay == MaxDay
LastClockDay == MaxDay + ClockDays - 1

\* Requested evaluation dates: midnight of every day from before the first row to
\* after the last clock day, and two timestamps that carry a time of day.
EvalStamps ==
    {Timestamp(d, "00:00") : d \in 0..(LastClockDay + 1)}
        \cup {Timestamp(1, "12:00"), Timestamp(FirstClockDay, "12:00")}

PriceArgs == {None, Some(0), Some(12), Some(24)}

Config(w, d, z) == [window_days |-> w, drop_threshold |-> d, spike_z_threshold |-> z]
DefaultConfig == Config(RECENT_WINDOW_DAYS, DROP_THRESHOLD, SPIKE_Z_THRESHOLD)

\* The defaults of config.py, and each parameter moved alone.
Configs ==
    {DefaultConfig,
     Config(2, DROP_THRESHOLD, SPIKE_Z_THRESHOLD),
     Config(4, DROP_THRESHOLD, SPIKE_Z_THRESHOLD),
     Config(RECENT_WINDOW_DAYS, <<1, 2>>, SPIKE_Z_THRESHOLD),
     Config(RECENT_WINDOW_DAYS, <<3, 4>>, SPIKE_Z_THRESHOLD),
     Config(RECENT_WINDOW_DAYS, DROP_THRESHOLD, <<3, 2>>)}

\* Price arguments in pairs: none (historical), a current price
\* alone, a zero current price, a claim below the current price, a claim equal to
\* it, and a discount.
HybridPricePairs ==
    {<<None, None>>, <<Some(12), None>>, <<Some(0), Some(24)>>,
     <<Some(24), Some(12)>>, <<Some(12), Some(12)>>, <<Some(12), Some(24)>>}

Midnights == {Timestamp(d, "00:00") : d \in 0..(LastClockDay + 1)}

\* Queries for product "A" (in the table): every date and price combination
\* under the default configuration, the midnights and the price pairs under the
\* others; and queries for product "X" (in no table) under the default one.
Queries ==
    [product_code : {"A"}, evaluation_date : EvalStamps, current_price : PriceArgs,
     claimed_original_price : PriceArgs, config : {DefaultConfig}]
    \cup
    {[product_code |-> "A", evaluation_date |-> e, current_price |-> pp[1],
      claimed_original_price |-> pp[2], config |-> c] :
        e \in Midnights, pp \in HybridPricePairs, c \in Configs \ {DefaultConfig}}
    \cup
    [product_code : {"X"}, evaluation_date : Midnights, current_price : PriceArgs,
     claimed_original_price : PriceArgs, config : {DefaultConfig}]

CallOf(fn, q, clock) ==
    [fn |-> fn,
     product_code |-> q.product_code,
     evaluation_date |-> q.evaluation_date,
     current_price |-> q.current_price,
     claimed_original_price |-> q.claimed_original_price,
     window_days |-> q.config.window_days,
     drop_threshold |-> q.config.drop_threshold,
     spike_z_threshold |-> q.config.spike_z_threshold,
     clock |-> clock]

\* detect_fake_discount with the arguments of call c, on table df.
DetectCall(df, c) ==
    DetectFakeDiscount(df, c.clock, c.product_code, c.evaluation_date,
                       c.current_price, c.claimed_original_price, c.window_days,
                       c.drop_threshold, c.spike_z_threshold)

(***************************************************************************)
(* Actions.                                                                *)
(***************************************************************************)
\* A call of detect_fake_discount on the loaded feature table.
Detect ==
    /\ stage = "serving"
    /\ call = NoCall
    /\ \E q \in Queries :
          /\ call' = CallOf("detect", q, today)
          /\ result' = DetectCall(featured, call')
    /\ UNCHANGED <<stage, cleaned, aggregated, featured, score_dict, today>>

\* The caller shows the result and is ready for the next query.
ShowResult ==
    /\ stage = "serving"
    /\ call # NoCall
    /\ call' = NoCall
    /\ result' = NoResult
    /\ UNCHANGED <<stage, cleaned, aggregated, featured, score_dict, today>>

\* Queries of the hybrid resolver: the default configuration, dates at midnight.
HybridQueries ==
    {[product_code |-> "A", evaluation_date |-> Timestamp(d, "00:00"),
      current_price |-> pp[1], claimed_original_price |-> pp[2],
      config |-> DefaultConfig] :
        d \in 0..(LastClockDay + 1), pp \in HybridPricePairs}
    \cup
    {[product_code |-> "X", evaluation_date |-> Timestamp(d, "00:00"),
      current_price |-> None, claimed_original_price |-> None,
      config |-> DefaultConfig] : d \in 0..(LastClockDay + 1)}

HybridCall(df, scores, c) ==
    HybridDetectFakeDiscount(df, scores, c.clock, c.product_code, c.evaluation_date,
                             c.current_price, c.claimed_original_price,
                             c.window_days, c.drop_threshold, c.spike_z_threshold)

\* A call of hybrid_detect_fake_discount on the loaded feature and score tables.
HybridDetect ==
    /\ stage = "serving"
    /\ call = NoCall
    /\ \E q \in HybridQueries :
          /\ call' = CallOf("hybrid_detect", q, today)
          /\ result' = HybridCall(featured, score_dict, call')
    /\ UNCHANGED <<stage, cleaned, aggregated, featured, score_dict, today>>

\* train_isolation_forest on the feature table: fitting an empty table raises;
\* otherwise the model gives each product a raw decision score.
Train ==
    /\ stage = "featured"
    /\ IF featured = <<>>
       THEN /\ stage' = "failed"
            /\ call' = [fn |-> "train", decision |-> <<>>]
            /\ UNCHANGED score_dict
       ELSE \E decision \in [ProductCodes(featured) -> 0..RawMax] :
               /\ stage' = "trained"
               /\ call' = [fn |-> "train", decision |-> decision]
               /\ score_dict' = NormalizeScores(decision)
    /\ UNCHANGED <<cleaned, aggregated, featured, today, result>>

\* aggregate_time_series on the cleaned table.
Aggregate ==
    /\ stage = "cleaned"
    /\ \E min_days \in MinDaysArgs :
          /\ call' = [fn |-> "aggregate", min_days |-> min_days]
          /\ aggregated' = AggregateTimeSeries(cleaned, min_days)
    /\ stage' = "aggregated"
    /\ UNCHANGED <<cleaned, featured, score_dict, today, result>>

\* The rolling windows of engineer_features: the defaults of config.py, and
\* windows shorter than the series.
WindowArgs == {<<SHORT_WINDOW, LONG_WINDOW>>, <<2, 3>>}

\* engineer_features on the daily price table.
EngineerFeatures ==
    /\ stage = "aggregated"
    /\ \E w \in WindowArgs :
          /\ call' = [fn |-> "engineer_features", short_window |-> w[1],
                      long_window |-> w[2]]
          /\ featured' = EngineerFeaturesOf(aggregated, w[1], w[2])
    /\ stage' = "featured"
    /\ UNCHANGED <<cleaned, aggregated, score_dict, today, result>>

\* Midnight passes: pd.Timestamp.today() moves to the next calendar day.
NextDay ==
    /\ call = NoCall
    /\ today < LastClockDay
    /\ today' = today + 1
    /\ UNCHANGED <<stage, cleaned, aggregated, featured, score_dict, call, result>>

(***************************************************************************)
(* Spec: rule-engine queries against a feature table the pipeline built.   *)
(* The serving process loads the engineered feature table only.            *)
(***************************************************************************)
Init ==
    /\ stage = "serving"
    /\ cleaned = <<>>
    /\ aggregated = <<>>
    /\ \E daily \in DailyTables :
          featured = EngineerFeaturesOf(daily, SHORT_WINDOW, LONG_WINDOW)
    /\ score_dict = <<>>
    /\ today = FirstClockDay
    /\ call = NoCall
    /\ result = NoResult

Next == Detect \/ ShowResult \/ NextDay

Spec == Init /\ [][Next]_vars

(***************************************************************************)
(* SpecHybrid: hybrid queries against a feature table and a score table    *)
(* that a training run gave: on this feature table, or (the table is only  *)
(* rebuilt when training is run again) on one that had no product "A" yet. *)
(***************************************************************************)
InitHybrid ==
    /\ stage = "serving"
    /\ cleaned = <<>>
    /\ aggregated = <<>>
    /\ \E daily \in ScoredTables :
          featured = EngineerFeaturesOf(daily, SHORT_WINDOW, LONG_WINDOW)
    /\ \E trained_on \in {ProductCodes(featured), ProductCodes(featured) \ {"A"}} :
          score_dict \in {NormalizeScores(d) : d \in [trained_on -> 0..RawMax]}
    /\ today = FirstClockDay
    /\ call = NoCall
    /\ result = NoResult

NextHybrid == HybridDetect \/ ShowResult \/ NextDay

SpecHybrid == InitHybrid /\ [][NextHybrid]_vars

(***************************************************************************)
(* SpecTrain: a training run on an engineered feature table.               *)
(***************************************************************************)
InitTrain ==
    /\ stage = "featured"
    /\ cleaned = <<>>
    /\ aggregated \in TrainTables
    /\ featured = EngineerFeaturesOf(aggregated, SHORT_WINDOW, LONG_WINDOW)
    /\ score_dict = <<>>
    /\ today = FirstClockDay
    /\ call = NoCall
    /\ result = NoResult

NextTrain == Train

SpecTrain == InitTrain /\ [][NextTrain]_vars

(***************************************************************************)
(* SpecAgg: an aggregation run on a cleaned transaction table.             *)
(***************************************************************************)
InitAgg ==
    /\ stage = "cleaned"
    /\ cleaned \in CleanedTables
    /\ aggregated = <<>>
    /\ featured = <<>>
    /\ score_dict = <<>>
    /\ today = FirstClockDay
    /\ call = NoCall
    /\ result = NoResult

NextAgg == Aggregate

SpecAgg == InitAgg /\ [][NextAgg]_vars

(***************************************************************************)
(* SpecSupplied: rule-engine queries against a feature table the caller    *)
(* supplies.  df is an argument of detect_fake_discount and its feature    *)
(* columns are read as they come (lines 128-131 test for their presence    *)
(* and for missing values): a row may carry no volatility_cv.              *)
(***************************************************************************)
\* The feature table df with the volatility_cv of row i missing.
WithoutVolatility(df, i) == [df EXCEPT ![i].volatility_cv = NaN]

\* Engineered tables of the full series of "A" and of "B", as built, and with
\* the volatility_cv of one row of "A" missing.
SuppliedTables ==
    UNION {{df} \cup {WithoutVolatility(df, i) :
                         i \in {j \in 1..Len(df) : df[j].product_code = "A"}} :
           df \in {EngineerFeaturesOf(daily, SHORT_WINDOW, LONG_WINDOW) :
                      daily \in DailyTablesOn({1..MaxDay}, OtherSeries)}}

InitSupplied ==
    /\ stage = "serving"
    /\ cleaned = <<>>
    /\ aggregated = <<>>
    /\ featured \in SuppliedTables
    /\ score_dict = <<>>
    /\ today = FirstClockDay
    /\ call = NoCall
    /\ result = NoResult

NextSupplied == Detect \/ ShowResult \/ NextDay

SpecSupplied == InitSupplied /\ [][NextSupplied]_vars

(***************************************************************************)
(* SpecFeat: a feature derivation run on a daily price table.              *)
(***************************************************************************)
InitFeat ==
    /\ stage = "aggregated"
    /\ cleaned = <<>>
    /\ aggregated \in DailyTables
    /\ featured = <<>>
    /\ score_dict = <<>>
    /\ today = FirstClockDay
    /\ call = NoCall
    /\ result = NoResult

NextFeat == EngineerFeatures

SpecFeat == InitFeat /\ [][NextFeat]_vars

(***************************************************************************)
(* What the claims say, stated over sets of rows rather than over the      *)
(* slices the code takes.                                                  *)
(***************************************************************************)
IsDetect == call.fn = "detect"
IsHybrid == call.fn = "hybrid_detect"
IsQuery == IsDetect \/ IsHybrid

RequestedDay == call.evaluation_date.day
SeriesRows == {featured[i] : i \in {j \in 1..Len(featured) :
                                       featured[j].product_code = call.product_code}}
SeriesDates == {r.order_date : r \in SeriesRows}
PriceOn(d) == (CHOOSE r \in SeriesRows : r.order_date = d).daily_mean_price

HistoricalQuery == call.current_price = None /\ call.claimed_original_price = None
RealTimeQuery == ~HistoricalQuery /\ RequestedDay = call.clock /\ SeriesRows # {}

OnOrBefore == {d \in SeriesDates : d <= RequestedDay}
ExpAnchor ==
    IF HistoricalQuery
    THEN IF RequestedDay \in SeriesDates THEN RequestedDay
         ELSE SetMax({d \in SeriesDates : d < RequestedDay})
    ELSE SetMax(SeriesDates)
ExpWindow == {r \in SeriesRows : /\ ExpAnchor - call.window_days <= r.order_date
                                 /\ r.order_date <= ExpAnchor}
ExpPreDrop == {r \in ExpWindow : r.order_date # ExpAnchor}
ExpWindowMax == SetMax({r.daily_mean_price : r \in ExpWindow})
ExpDropPct(claimed, current) ==
    IF claimed > 0 THEN <<claimed - current, claimed>> ELSE <<0, 1>>
ExpSpike == \E r \in ExpPreDrop : SqGt(r.rolling_z_score, call.spike_z_threshold)

Status == result.value.discount_status

(* C1: once detect reaches the common decision (either mode), with drop_pct =
   (claimed - current) / claimed for claimed > 0 and 0 otherwise, the status is
   Genuine when drop_pct < drop_threshold, Suspicious when drop_pct >=
   drop_threshold and some pre-drop z-score exceeds spike_z_threshold, Genuine
   when drop_pct >= drop_threshold and none does; nothing else comes out. *)
C1_DecisionRule ==
    (IsDetect /\ result.exit = "decision") =>
        LET drop_pct == ExpDropPct(result.frame.claimed_original_price[1],
                                   result.frame.current_price[1])
        IN  /\ FracLt(drop_pct, call.drop_threshold) => Status = "Genuine"
            /\ (~FracLt(drop_pct, call.drop_threshold) /\ ExpSpike)
                   => Status = "Suspicious"
            /\ (~FracLt(drop_pct, call.drop_threshold) /\ ~ExpSpike)
                   => Status = "Genuine"
            /\ Status \in {"Genuine", "Suspicious"}
            /\ result.value.drop_percentage = Round3(drop_pct)

\* A decision with a spike before the drop and drop_pct exactly at the threshold.
C1_Witness ==
    /\ IsDetect /\ result.exit = "decision" /\ Status = "Suspicious"
    /\ FracEq(ExpDropPct(result.frame.claimed_original_price[1],
                         result.frame.current_price[1]),
              call.drop_threshold)

(* C2: in historical mode detect anchors to the requested date when the series
   has a row on it, otherwise to the greatest series date strictly earlier (a
   date after the end anchors to the last date); evaluation_date is the anchored
   date and current_price the series value at it (reported rounded to two
   decimals); the result is No Data when the product has no row on or before
   the requested date, also when the product is not in the table. *)
C2_Anchoring ==
    (IsDetect /\ HistoricalQuery) =>
        /\ ~result.raised
        /\ IF OnOrBefore = {}
           THEN /\ Status = "No Data"
                /\ result.value.evaluation_date = RequestedDay
           ELSE /\ Status # "No Data"
                /\ result.value.evaluation_date = ExpAnchor
                /\ result.frame.current_price = Some(PriceOn(ExpAnchor))
                /\ "current_price" \in DOMAIN result.value
                       => result.value.current_price = Round2(PriceOn(ExpAnchor))

\* A requested date with no row, anchored to an earlier date, decided there.
C2_Witness ==
    /\ IsDetect /\ HistoricalQuery /\ result.exit = "decision"
    /\ RequestedDay \notin SeriesDates
    /\ result.value.evaluation_date < RequestedDay
    /\ result.value.current_price # result.frame.current_price[1]

(* C3: in real-time mode (a live price given, evaluation date = today, product
   in the table) detect returns Invalid Input whenever current_price is missing,
   claimed_original_price is missing, current_price <= 0 or
   claimed_original_price <= 0. *)
C3_InvalidInput ==
    (/\ IsDetect /\ RealTimeQuery
     /\ \/ call.current_price = None
        \/ call.claimed_original_price = None
        \/ call.current_price[1] <= 0
        \/ call.claimed_original_price[1] <= 0)
        => (~result.raised /\ Status = "Invalid Input")

BothPricesValid ==
    /\ call.current_price # None /\ call.claimed_original_price # None
    /\ call.current_price[1] > 0 /\ call.claimed_original_price[1] > 0

(* C4: in real-time mode with both prices given and valid, claimed_original_price
   < current_price gives No Discount with drop_percentage 0.0, whatever the
   amount of history and the z-scores. *)
C4_NoDiscount ==
    (/\ IsDetect /\ RealTimeQuery /\ BothPricesValid
     /\ call.claimed_original_price[1] < call.current_price[1]) =>
        /\ ~result.raised
        /\ Status = "No Discount"
        /\ result.value.drop_percentage = 0

\* No Discount returned although the window would have been too short.
C4_Witness ==
    /\ IsDetect /\ RealTimeQuery /\ BothPricesValid
    /\ call.claimed_original_price[1] < call.current_price[1]
    /\ Status = "No Discount"
    /\ Cardinality(ExpWindow) < MinRealtimeObs

(* C5: in historical mode, after anchoring, the window is the rows dated from
   (anchor - window_days) to the anchor, both ends included; detect returns
   Insufficient Data exactly when it holds fewer than 5 rows, and otherwise
   takes claimed_original_price as the maximum daily price of the window
   (so claimed_original_price >= current_price). *)
C5_HistoricalWindow ==
    (IsDetect /\ HistoricalQuery /\ OnOrBefore # {}) =>
        /\ ~result.raised
        /\ {result.frame.recent[i] : i \in 1..Len(result.frame.recent)}
               = {r.order_date : r \in ExpWindow}
        /\ Status = "Insufficient Data" <=> Cardinality(ExpWindow) < 5
        /\ Cardinality(ExpWindow) >= 5 =>
               /\ result.exit = "decision"
               /\ result.frame.claimed_original_price = Some(ExpWindowMax)
               /\ result.frame.claimed_original_price[1] >= result.frame.current_price[1]
               /\ result.value.claimed_original_price = Round2(ExpWindowMax)

\* A window of exactly five rows, its first row on the day anchor - window_days,
\* and a peak above the current price.
C5_Witness ==
    /\ IsDetect /\ HistoricalQuery /\ result.exit = "decision"
    /\ Cardinality(ExpWindow) = 5
    /\ ExpAnchor - call.window_days \in {r.order_date : r \in ExpWindow}
    /\ result.frame.claimed_original_price[1] > result.frame.current_price[1]

(* C6: in real-time mode with valid prices and claimed_original_price >=
   current_price, the window is anchored to the last date of the series (rows
   from last date - window_days to last date); detect returns Limited Data
   exactly when it holds fewer than 3 rows, and with 3 or more goes to the
   common decision with the prices the caller gave. *)
C6_RealTimeWindow ==
    (/\ IsDetect /\ RealTimeQuery /\ BothPricesValid
     /\ call.claimed_original_price[1] >= call.current_price[1]) =>
        /\ ~result.raised
        /\ {result.frame.recent[i] : i \in 1..Len(result.frame.recent)}
               = {r.order_date : r \in ExpWindow}
        /\ Status = "Limited Data" <=> Cardinality(ExpWindow) < 3
        /\ Cardinality(ExpWindow) >= 3 =>
               /\ result.exit = "decision"
               /\ result.frame.current_price = call.current_price
               /\ result.frame.claimed_original_price = call.claimed_original_price
               /\ result.value.current_price = Round2(call.current_price[1])
               /\ result.value.claimed_original_price
                      = Round2(call.claimed_original_price[1])
               /\ result.value.evaluation_date = call.clock

\* A decision on exactly three rows of a series that ends before today.
C6_Witness ==
    /\ IsDetect /\ RealTimeQuery /\ BothPricesValid
    /\ result.exit = "decision"
    /\ Cardinality(ExpWindow) = 3
    /\ SetMax(SeriesDates) < call.clock

\* The rule engine's result for the arguments of the current call.
RuleResult == DetectCall(featured, call)
ExpMlScore ==
    IF call.product_code \in DOMAIN score_dict THEN score_dict[call.product_code]
    ELSE <<0, 1>>
MlText == " ML anomaly score: {ml_score:.3f} (higher = more abnormal)."

(* C7: hybrid_detect's final status is Highly Suspicious exactly when the rule
   status is Suspicious and ml_score > 0.5, or Genuine and ml_score > 0.75; in
   every other combination (ml_score exactly 0.5 or 0.75 included, and every
   terminal rule status) the rule status passes through; a product absent from
   the score table gets ml_score 0.0 and is never escalated. *)
C7_Escalation ==
    (IsHybrid /\ ~result.raised) =>
        LET rule_status == RuleResult.value.discount_status
            escalate ==
                \/ rule_status = "Suspicious" /\ 2 * ExpMlScore[1] > ExpMlScore[2]
                \/ rule_status = "Genuine" /\ 4 * ExpMlScore[1] > 3 * ExpMlScore[2]
        IN  /\ escalate => Status = "Highly Suspicious"
            /\ ~escalate => Status = rule_status
            /\ Status = "Highly Suspicious" => escalate
            /\ call.product_code \notin DOMAIN score_dict =>
                   /\ result.value.ml_anomaly_score = 0
                   /\ Status = rule_status

\* A Genuine rule result with ml_score exactly 0.75: not escalated.
C7_Witness ==
    /\ IsHybrid /\ ~result.raised
    /\ RuleResult.value.discount_status = "Genuine"
    /\ FracEq(ExpMlScore, <<3, 4>>)
    /\ Status = "Genuine"

\* A Suspicious rule result of a product in the feature table and not in the
\* score table: not escalated.
C7_WitnessAbsent ==
    /\ IsHybrid /\ ~result.raised
    /\ call.product_code \notin DOMAIN score_dict
    /\ RuleResult.value.discount_status = "Suspicious"
    /\ Status = "Suspicious"

(* C8: for every rule result, terminal ones included, hybrid_detect returns a
   result whose explanation is the rule explanation, unmodified, followed by
   the ML score text, whose ml_anomaly_score is set, and whose every other
   field except discount_status equals the rule result's; the feature table
   and the score table are left unchanged. *)
C8_HybridFrame ==
    /\ [](IsHybrid =>
            /\ result.raised = RuleResult.raised
            /\ ~result.raised =>
                 LET rule == RuleResult.value
                 IN  /\ result.value.explanation = rule.explanation \o <<MlText>>
                     /\ DOMAIN result.value = DOMAIN rule \cup {"ml_anomaly_score"}
                     /\ result.value.ml_anomaly_score = Round3(ExpMlScore)
                     /\ \A k \in DOMAIN rule \ {"discount_status", "explanation"} :
                            result.value[k] = rule[k])
    /\ [][featured' = featured /\ score_dict' = score_dict]_vars

\* A terminal rule result (Invalid Input, which carries no volatility_score)
\* extended by the hybrid resolver.
C8_Witness ==
    /\ IsHybrid /\ ~result.raised
    /\ Status = "Invalid Input"
    /\ "ml_anomaly_score" \in DOMAIN result.value
    /\ "volatility_score" \notin DOMAIN result.value
    /\ Len(result.value.explanation) = 2

(* C9: train_isolation_forest returns one score per product, each within
   [0, 1]; when all raw model scores are equal every score is 0; otherwise the
   scores are the min-max scaling of the negated raw scores: the lowest raw
   score (most anomalous) gets 1, the highest gets 0. *)
C9_Normalization ==
    stage = "trained" =>
        LET raw == call.decision
            hi == SetMax({raw[c] : c \in DOMAIN raw})
            lo == SetMin({raw[c] : c \in DOMAIN raw})
        IN  /\ DOMAIN score_dict = ProductCodes(featured)
            /\ \A c \in DOMAIN score_dict :
                   /\ score_dict[c][2] > 0
                   /\ 0 <= score_dict[c][1] /\ score_dict[c][1] <= score_dict[c][2]
                   /\ hi = lo => score_dict[c][1] = 0
                   /\ hi # lo => FracEq(score_dict[c], <<hi - raw[c], hi - lo>>)
                   /\ (hi # lo /\ raw[c] = lo) => FracEq(score_dict[c], <<1, 1>>)
                   /\ (hi # lo /\ raw[c] = hi) => FracEq(score_dict[c], <<0, 1>>)

\* Three products with three different raw scores: one score strictly inside (0, 1).
C9_Witness ==
    /\ stage = "trained"
    /\ Cardinality(DOMAIN score_dict) = 3
    /\ \E c \in DOMAIN score_dict :
          0 < score_dict[c][1] /\ score_dict[c][1] < score_dict[c][2]

\* Valid transactions of the cleaned table, by product and calendar day.
TxDays(c) == {cleaned[i].order_date.day : i \in {j \in 1..Len(cleaned) :
                 cleaned[j].product_code = c /\ cleaned[j].price # NaN}}
AggRows(c) == {aggregated[i] : i \in {j \in 1..Len(aggregated) :
                                         aggregated[j].product_code = c}}
AggDates(c) == {r.order_date : r \in AggRows(c)}

(* C10: for every product retained by aggregate the daily series has no date
   gaps (every calendar day between its first and last date has a row, a day
   with no transactions carrying the most recent prior day's mean) and at
   least min_days distinct dates; a product with fewer has no row. *)
C10_DenseSeries ==
    stage = "aggregated" =>
        \A c \in {"A", "B"} :
            /\ AggRows(c) # {} =>
                   /\ \A d \in SetMin(AggDates(c))..SetMax(AggDates(c)) :
                          \E r \in AggRows(c) :
                              /\ r.order_date = d
                              /\ TxDays(c) \cap {d} = {} =>
                                     \E q \in AggRows(c) :
                                         /\ q.order_date
                                                = SetMax({e \in TxDays(c) : e < d})
                                         /\ r.daily_mean_price = q.daily_mean_price
                   /\ Cardinality(AggDates(c)) >= call.min_days
            /\ Cardinality(TxDays(c)) < call.min_days => AggRows(c) = {}

(* C11: the table returned by aggregate is sorted ascending by
   (product_code, date): the rows of one product are contiguous, the products
   appear in ascending product_code order, and within a product the dates are
   strictly increasing. *)
C11_SortedByProductDate ==
    stage = "aggregated" =>
        \A i \in 1..(Len(aggregated) - 1) :
            \/ Rank(aggregated[i].product_code) < Rank(aggregated[i + 1].product_code)
            \/ /\ aggregated[i].product_code = aggregated[i + 1].product_code
               /\ aggregated[i].order_date < aggregated[i + 1].order_date

\* What a caller sees of a call's outcome: the returned dict, or the exception.
Outcome(r) == [raised |-> r.raised, value |-> r.value]

\* The calendar days on which a call can be made.
ClockRange == FirstClockDay..LastClockDay

(* C12: detect is a pure function of its arguments: a call with the same
   feature table, product_code, evaluation_date, prices and thresholds returns
   the same result on whatever calendar day it is made. *)
C12_ClockIndependent ==
    IsDetect =>
        \A day \in ClockRange :
            Outcome(DetectCall(featured, [call EXCEPT !.clock = day])) = Outcome(result)

\* The pre-drop row of the latest date, when there is one.
LatestPreDrop == CHOOSE r \in ExpPreDrop : \A q \in ExpPreDrop : q.order_date <= r.order_date

\* A square-root value <<s, a, b>> is a number of [0, 1] / is 0.
SqInUnit(x) == x # NaN /\ SqSign(x) >= 0 /\ (SqSign(x) > 0 => x[2] <= x[3])
SqIsZero(x) == x # NaN /\ SqSign(x) = 0

\* a/b = c/d for positive integers, by lowest terms (the cross products overflow).
RECURSIVE Gcd(_, _)
Gcd(a, b) == IF b = 0 THEN a ELSE Gcd(b, a % b)
SameRatio(a, b, c, d) ==
    /\ a \div Gcd(a, b) = c \div Gcd(c, d)
    /\ b \div Gcd(a, b) = d \div Gcd(c, d)

(* C13: every result of detect that carries a volatility_score carries a
   defined number within [0, 1]; on the decision exit it is
   clamp(latest pre-drop volatility_cv / 0.35, 0, 1), and 0 when that
   volatility_cv is unavailable, also when an earlier pre-drop row has one. *)
C13_VolatilityScore ==
    (IsDetect /\ ~result.raised /\ "volatility_score" \in DOMAIN result.value) =>
        LET v == result.value.volatility_score
        IN  /\ SqInUnit(v)
            /\ result.exit # "decision" => SqIsZero(v)
            /\ result.exit = "decision" =>
                   IF ExpPreDrop = {} \/ LatestPreDrop.volatility_cv = NaN
                   THEN SqIsZero(v)
                   ELSE LET cv == LatestPreDrop.volatility_cv
                            scaled == <<cv[1], cv[2] * VolScaleDen * VolScaleDen,
                                        cv[3] * VolScaleNum * VolScaleNum>>
                        IN  IF SqSign(scaled) <= 0 THEN SqIsZero(v)
                            ELSE IF scaled[2] >= scaled[3]
                            THEN SqSign(v) > 0 /\ v[2] = v[3]
                            ELSE SqSign(v) > 0 /\ SameRatio(v[2], v[3], scaled[2], scaled[3])

\* The drop thresholds of the configurations.
DropThresholds == {c.drop_threshold : c \in Configs}

\* The outcome of the current call's arguments with drop_threshold t.
WithThreshold(t) == DetectCall(featured, [call EXCEPT !.drop_threshold = t])

(* C14: monotonicity in drop_threshold: for fixed table, product, date, prices,
   window and spike threshold, and thresholds t1 < t2, a Suspicious result at
   t2 is a Suspicious result at t1, and a terminal status (or an exception) is
   the same at t1. *)
C14_ThresholdMonotone ==
    IsDetect =>
        \A t1 \in {t \in DropThresholds : FracLt(t, call.drop_threshold)} :
            /\ WithThreshold(t1).raised = result.raised
            /\ ~result.raised =>
                   /\ Status = "Suspicious"
                          => WithThreshold(t1).value.discount_status = "Suspicious"
                   /\ result.exit # "decision" => Outcome(WithThreshold(t1)) = Outcome(result)

\* A drop of one half: Suspicious under thresholds 0.18 and 0.5, Genuine under 0.75.
C14_Witness ==
    /\ IsDetect /\ ~result.raised
    /\ call.drop_threshold = <<1, 2>>
    /\ Status = "Suspicious"
    /\ WithThreshold(DROP_THRESHOLD).value.discount_status = "Suspicious"
    /\ WithThreshold(<<3, 4>>).value.discount_status = "Genuine"

\* The (product_code, date, price) triples of a table.
PricePoints(df) ==
    {<<df[i].product_code, df[i].order_date, df[i].daily_mean_price>> : i \in 1..Len(df)}

\* z = (p - n/d) / sqrt(a/b) for a row with price p, rolling mean n/d and
\* rolling standard deviation sqrt(a/b), a > 0.
IsZScoreOf(z, p, mean, std) ==
    LET num == p * mean[2] - mean[1]
    IN  /\ z # NaN
        /\ SqSign(z) = (IF num > 0 THEN 1 ELSE IF num < 0 THEN -1 ELSE 0)
        /\ SameRatio(z[2], z[3], num * num * std[3], mean[2] * mean[2] * std[2])

(* C15: on every row that engineer_features produces, rolling_z_score is
   (price - rolling_mean_long) / rolling_std_long when rolling_std_long is
   defined and not zero, and is no value (not zero, not infinity) when
   rolling_std_long is exactly 0; the prices and the set of (product_code,
   date) rows are those of the input. *)
C15_ZScore ==
    stage = "featured" =>
        /\ \A i \in 1..Len(featured) :
              LET r == featured[i]
              IN  /\ (r.rolling_std_long # NaN /\ r.rolling_std_long[2] # 0) =>
                         IsZScoreOf(r.rolling_z_score, r.daily_mean_price,
                                    r.rolling_mean_long, r.rolling_std_long)
                  /\ (r.rolling_std_long # NaN /\ r.rolling_std_long[2] = 0) =>
                         r.rolling_z_score = NaN
        /\ Len(featured) = Len(aggregated)
        /\ PricePoints(featured) = PricePoints(aggregated)

\* A table with a zero-variance window and a window with a price off its mean.
C15_Witness ==
    /\ stage = "featured"
    /\ call.long_window = 3
    /\ \E i \in 1..Len(featured) :
          /\ featured[i].product_code = "A"
          /\ featured[i].rolling_std_long # NaN
          /\ featured[i].rolling_std_long[2] = 0
          /\ featured[i].rolling_z_score = NaN
    /\ \E i \in 1..Len(featured) :
          /\ featured[i].product_code = "A"
          /\ featured[i].rolling_z_score # NaN
          /\ SqSign(featured[i].rolling_z_score) < 0

DetectionStatuses ==
    {"No Data", "Insufficient Data", "Invalid Input", "No Discount", "Limited Data",
     "Genuine", "Suspicious"}

(* C16: detect is total over its optional inputs: for a product with a row in
   the table, every evaluation date and every combination of current_price and
   claimed_original_price supplied or absent, the call returns a result whose
   discount_status is one of the seven statuses; the common decision is never
   reached without a resolved window and no call ends in an unhandled error. *)
C16_Total ==
    (IsDetect /\ SeriesRows # {}) =>
        /\ ~result.raised
        /\ Status \in DetectionStatuses
        /\ result.exit = "decision" => result.frame.recent # <<>>

\* The rows of the window whose z-score exceeds the spike threshold.
SpikeRows == {r \in ExpWindow : SqGt(r.rolling_z_score, call.spike_z_threshold)}

(* C17: has_spike depends only on the z-scores of the window rows other than
   the last: in historical mode the excluded row is the anchored evaluation
   day, in real-time mode it is the series' last available date; a z-score
   above spike_z_threshold on that row alone does not set the flag, and the
   result is Genuine even when drop_pct >= drop_threshold. *)
C17_LastRowExcluded ==
    (IsDetect /\ result.exit = "decision") =>
        /\ HistoricalQuery => ExpAnchor = result.value.evaluation_date
        /\ ~HistoricalQuery => ExpAnchor = SetMax(SeriesDates)
        /\ Status = "Suspicious" => \E r \in SpikeRows : r.order_date # ExpAnchor
        /\ (\A r \in SpikeRows : r.order_date = ExpAnchor) => Status = "Genuine"

\* Real-time mode, a drop of one half, and a spike on the last available date only.
C17_Witness ==
    /\ IsDetect /\ result.exit = "decision" /\ ~HistoricalQuery
    /\ SpikeRows # {}
    /\ \A r \in SpikeRows : r.order_date = SetMax(SeriesDates)
    /\ ~FracLt(ExpDropPct(call.claimed_original_price[1], call.current_price[1]),
               call.drop_threshold)
    /\ Status = "Genuine"

====
